---- MODULE Spec2Model ----
(***************************************************************************)
(* A model of the raytracer-rs rendering core: the row partitioning and    *)
(* the threaded render loop of camera.rs, the scattering of material.rs,   *)
(* the sphere intersection of sphere.rs and the bounce loop of main.rs.    *)
(*                                                                         *)
(* f32 values are modelled as extended rationals <<n, d>> with d >= 0 in   *)
(* lowest terms: d = 0 stands for NaN (<<0,0>>), +inf (<<1,0>>) and -inf   *)
(* (<<-1,0>>).  Arithmetic is exact; a square root is exact on rational    *)
(* squares and truncated otherwise.                                        *)
(***************************************************************************)
EXTENDS Integers, Sequences, FiniteSets, TLC

(***************************************************************************)
(* Bounds of the model.                                                    *)
(***************************************************************************)
MaxRows == 8
MaxParts == 4
MaxHeight == 2
MaxWidth == 2
MaxThreads == 2
MaxSamples == 1
MaxDepth == 3
MaxSpheres == 2

(***************************************************************************)
(* f32 arithmetic.                                                         *)
(***************************************************************************)
Abs(x) == IF x < 0 THEN -x ELSE x

Sgn(x) == IF x < 0 THEN -1 ELSE IF x > 0 THEN 1 ELSE 0

RECURSIVE Gcd(_, _)
Gcd(a, b) == IF b = 0 THEN a ELSE Gcd(b, a % b)

NaN == <<0, 0>>

Inf == <<1, 0>>

Norm(n, d) ==
    IF d = 0 THEN <<Sgn(n), 0>>
    ELSE LET g == Gcd(Abs(n), Abs(d))
         IN  <<Sgn(d) * (n \div g), Abs(d) \div g>>

R(n) == <<n, 1>>

Q(n, d) == Norm(n, d)

IsNaN(a) == a[2] = 0 /\ a[1] = 0

IsFin(a) == a[2] # 0

FNeg(a) == <<-a[1], a[2]>>

FAdd(a, b) ==
    IF IsNaN(a) \/ IsNaN(b) THEN NaN
    ELSE IF ~IsFin(a) /\ ~IsFin(b) THEN (IF a[1] = b[1] THEN a ELSE NaN)
    ELSE IF ~IsFin(a) THEN a
    ELSE IF ~IsFin(b) THEN b
    ELSE LET g == Gcd(a[2], b[2])
         IN  Norm(a[1] * (b[2] \div g) + b[1] * (a[2] \div g), (a[2] \div g) * b[2])

FSub(a, b) == FAdd(a, FNeg(b))

FMul(a, b) ==
    IF IsNaN(a) \/ IsNaN(b) THEN NaN
    ELSE IF ~IsFin(a) \/ ~IsFin(b) THEN Norm(Sgn(a[1]) * Sgn(b[1]), 0)
    ELSE LET g1 == Gcd(Abs(a[1]), b[2])
             g2 == Gcd(Abs(b[1]), a[2])
         IN  Norm((a[1] \div g1) * (b[1] \div g2), (a[2] \div g2) * (b[2] \div g1))

FDiv(a, b) ==
    IF IsNaN(a) \/ IsNaN(b) THEN NaN
    ELSE IF ~IsFin(a) /\ ~IsFin(b) THEN NaN
    ELSE IF ~IsFin(b) THEN R(0)
    ELSE IF b[1] = 0 THEN <<Sgn(a[1]), 0>>
    ELSE IF ~IsFin(a) THEN <<a[1] * Sgn(b[1]), 0>>
    ELSE Norm(a[1] * b[2], a[2] * b[1])

\* The order of n1/d1 and n2/d2 (d1, d2 > 0) as -1, 0 or 1, by continued fractions.
RECURSIVE Cmp(_, _, _, _)
Cmp(n1, d1, n2, d2) ==
    LET q1 == n1 \div d1
        q2 == n2 \div d2
        r1 == n1 % d1
        r2 == n2 % d2
    IN  IF q1 # q2 THEN Sgn(q1 - q2)
        ELSE IF r1 = 0 \/ r2 = 0 THEN Sgn(r1 - r2)
        ELSE Cmp(d2, r2, d1, r1)

FLt(a, b) ==
    /\ ~IsNaN(a)
    /\ ~IsNaN(b)
    /\ IF IsFin(a) /\ IsFin(b) THEN Cmp(a[1], a[2], b[1], b[2]) < 0
       ELSE IF IsFin(a) THEN b[1] > 0
       ELSE IF IsFin(b) THEN a[1] < 0
       ELSE a[1] < b[1]

FLe(a, b) == ~IsNaN(a) /\ ~IsNaN(b) /\ ~FLt(b, a)

FGt(a, b) == FLt(b, a)

\* f32::min and f32::max return the other operand when one is NaN.
FMin(a, b) == IF IsNaN(a) THEN b ELSE IF IsNaN(b) THEN a ELSE IF FLt(b, a) THEN b ELSE a

FMax(a, b) == IF IsNaN(a) THEN b ELSE IF IsNaN(b) THEN a ELSE IF FLt(a, b) THEN b ELSE a

FAbs(a) == <<Abs(a[1]), a[2]>>

\* The integer square root of x, by bisection: lo * lo <= x < hi * hi.
RECURSIVE ISqrtIn(_, _, _)
ISqrtIn(x, lo, hi) ==
    IF hi - lo <= 1 THEN lo
    ELSE LET mid == (lo + hi) \div 2
         IN  IF mid * mid <= x THEN ISqrtIn(x, mid, hi) ELSE ISqrtIn(x, lo, mid)

ISqrt(x) == ISqrtIn(x, 0, IF x < 46340 THEN x + 1 ELSE 46341)

IsSquare(x) == ISqrt(x) * ISqrt(x) = x

FSqrt(a) ==
    IF IsNaN(a) THEN NaN
    ELSE IF ~IsFin(a) THEN (IF a[1] > 0 THEN Inf ELSE NaN)
    ELSE IF a[1] < 0 THEN NaN
    ELSE IF IsSquare(a[1]) /\ IsSquare(a[2]) THEN Norm(ISqrt(a[1]), ISqrt(a[2]))
    ELSE Norm(ISqrt(a[1] * a[2] * 16), a[2] * 4)

RECURSIVE FPowi(_, _)
FPowi(a, k) == IF k = 0 THEN R(1) ELSE FMul(a, FPowi(a, k - 1))

\* Range<f32>::contains: start <= x < end.
Contains(lo, hi, x) == FLe(lo, x) /\ FLt(x, hi)

(***************************************************************************)
(* vec3.rs: Vec3 and Color.                                                *)
(***************************************************************************)
V(x, y, z) == <<R(x), R(y), R(z)>>

ZERO == V(0, 0, 0)

scale(a, v) == <<FMul(a, v[1]), FMul(a, v[2]), FMul(a, v[3])>>

dot(v, u) == FAdd(FAdd(FMul(v[1], u[1]), FMul(v[2], u[2])), FMul(v[3], u[3]))

norm(v) == FSqrt(dot(v, v))

unit(v) == scale(FDiv(R(1), norm(v)), v)

elem_dot(v, u) == <<FMul(v[1], u[1]), FMul(v[2], u[2]), FMul(v[3], u[3])>>

VAdd(v, u) == <<FAdd(v[1], u[1]), FAdd(v[2], u[2]), FAdd(v[3], u[3])>>

VSub(v, u) == <<FSub(v[1], u[1]), FSub(v[2], u[2]), FSub(v[3], u[3])>>

VNeg(v) == scale(R(-1), v)

\* rand_unit() is unit(v) of a random v; ru is that random unit vector.
lambertian_distribution(normal, ru) == VAdd(normal, ru)

reflect(v, n) == VSub(v, scale(FMul(R(2), dot(v, n)), n))

refract(r, n, eta, eta_prime) ==
    LET cos_theta == FMax(FMin(dot(VNeg(r), n), R(1)), R(-1))
        r_out_perpendicular == scale(FDiv(eta, eta_prime), VAdd(r, scale(cos_theta, n)))
        root == FSqrt(FAbs(FSub(R(1), dot(r_out_perpendicular, r_out_perpendicular))))
        r_out_parallel == IF FGt(cos_theta, R(0)) THEN scale(FNeg(root), n)
                          ELSE scale(root, n)
    IN  VAdd(r_out_perpendicular, r_out_parallel)

BLACK == V(0, 0, 0)

WHITE == V(1, 1, 1)

blend(a, b) == elem_dot(a, b)

(***************************************************************************)
(* ray.rs: a ray is [start, dir].                                          *)
(***************************************************************************)
Ray(start, dir) == [start |-> start, dir |-> dir]

at(r, time) == VAdd(r.start, scale(time, r.dir))

(***************************************************************************)
(* material.rs: Material, Scatter and Material::scatter.  The random       *)
(* draws of a call are parameters: ru is the rand_unit() of the Lambertian *)
(* arm, draw the uniform [0,1) sample of reflectance, fru the rand_unit()  *)
(* of the fuzz step.                                                       *)
(***************************************************************************)
None == <<>>

Material(kind, solid_color, refraction_index, fuzz) ==
    [material |-> kind, solid_color |-> solid_color,
     refraction_index |-> refraction_index, fuzz |-> fuzz]

metal(solid_color, fuzz) == Material("Metal", solid_color, R(1), fuzz)

lambertian(solid_color, fuzz) == Material("Lambertian", solid_color, R(1), fuzz)

dielectric(refraction_index, fuzz) == Material("Dielectric", WHITE, refraction_index, fuzz)

Absorbed(solid_color) == [kind |-> "Absorbed", solid_color |-> solid_color]

Scattered(direction, attenuation) ==
    [kind |-> "Scattered", direction |-> direction, attenuation |-> attenuation]

reflectance(cos_theta, ref_ratio, draw) ==
    LET r0 == FPowi(FDiv(FSub(R(1), ref_ratio), FAdd(R(1), ref_ratio)), 2)
    IN  FGt(FAdd(r0, FMul(FSub(R(1), r0), FPowi(FSub(R(1), cos_theta), 5))), draw)

\* The Dielectric arm's choice between reflect and refract.
cannot_refract(m, r, normal, refraction_index, front_face, draw) ==
    LET eta == IF front_face THEN refraction_index ELSE m.refraction_index
        eta_prime == IF front_face THEN m.refraction_index ELSE refraction_index
        n == IF front_face THEN normal ELSE VNeg(normal)
        refraction_ratio == FDiv(eta, eta_prime)
        r_dir == unit(r.dir)
        cos_theta == FMin(dot(VNeg(r_dir), n), R(1))
        sin_theta == FSqrt(FSub(R(1), FPowi(cos_theta, 2)))
    IN  \/ FGt(FMul(refraction_ratio, sin_theta), R(1))
        \/ reflectance(cos_theta, refraction_ratio, draw)

\* The first match of scatter: the outcome before the fuzz step.
scatter_match(m, r, normal, refraction_index, front_face, ru, draw) ==
    CASE m.material = "Lambertian" ->
            Scattered(lambertian_distribution(normal, ru), m.solid_color)
      [] m.material = "Metal" ->
            LET direction == reflect(r.dir, normal)
            IN  Scattered(IF FLt(norm(direction), Q(1, 100000000)) THEN normal
                          ELSE direction,
                          m.solid_color)
      [] m.material = "Dielectric" ->
            LET eta == IF front_face THEN refraction_index ELSE m.refraction_index
                eta_prime == IF front_face THEN m.refraction_index ELSE refraction_index
                n == IF front_face THEN normal ELSE VNeg(normal)
                r_dir == unit(r.dir)
            IN  Scattered(IF cannot_refract(m, r, normal, refraction_index, front_face, draw)
                          THEN reflect(r_dir, n)
                          ELSE refract(r_dir, n, eta, eta_prime),
                          m.solid_color)

scatter_fuzz_unperturbed(m, normal, result, fru) ==
    IF m.fuzz # None /\ result.kind = "Scattered"
    THEN LET direction == VAdd(unit(result.direction), scale(m.fuzz, fru))
         IN  IF FLt(dot(result.direction, normal), R(0))
             THEN Absorbed(m.solid_color)
             ELSE Scattered(direction, result.attenuation)
    ELSE result

\* The second match of scatter: the fuzz step.
scatter_fuzz(m, normal, result, fru) ==
    IF m.fuzz # None /\ result.kind = "Scattered"
    THEN LET direction == VAdd(unit(result.direction), scale(m.fuzz, fru))
         IN  IF FLt(dot(direction, normal), R(0))
             THEN Absorbed(m.solid_color)
             ELSE Scattered(direction, result.attenuation)
    ELSE result

scatter(m, r, normal, refraction_index, front_face, ru, draw, fru) ==
    scatter_fuzz(m, normal,
                 scatter_match(m, r, normal, refraction_index, front_face, ru, draw),
                 fru)

(***************************************************************************)
(* hit.rs and sphere.rs.                                                   *)
(***************************************************************************)
\* Option<HitRecord>: NoHit is None, a record with some = TRUE is Some(record).
NoHit == [some |-> FALSE]

HitRecord(p, normal, t, material, ray) ==
    [some |-> TRUE, p |-> p, normal |-> normal, t |-> t,
     front_face |-> FLt(dot(ray.dir, normal), R(0)), material |-> material]

Sphere(center, radius, material) ==
    [center |-> center, radius |-> radius, material |-> material]

\* Sphere::hit over t_range = lo..hi; NoHit when no root lies in the range.
hit(s, r, lo, hi) ==
    LET oc == VSub(r.start, s.center)
        a == dot(r.dir, r.dir)
        half_b == dot(r.dir, oc)
        c == FSub(dot(oc, oc), FMul(s.radius, s.radius))
        discriminant == FSub(FMul(half_b, half_b), FMul(a, c))
        sqrtd == FSqrt(discriminant)
        root1 == FDiv(FNeg(FAdd(half_b, sqrtd)), a)
        root2 == FDiv(FAdd(FNeg(half_b), sqrtd), a)
        record(root) ==
            LET p == at(r, root)
                normal == scale(FDiv(R(1), s.radius), VSub(p, s.center))
            IN  HitRecord(p, normal, root, s.material, r)
    IN  IF Contains(lo, hi, root1) THEN record(root1)
        ELSE IF Contains(lo, hi, root2) THEN record(root2)
        ELSE NoHit

(***************************************************************************)
(* camera.rs: row partitioning.                                            *)
(***************************************************************************)
Range(start, end) == [start |-> start, end |-> end]

RangeLen(r) == IF r.end > r.start THEN r.end - r.start ELSE 0

Rows(r) == {h \in 0..(r.end - 1) : h >= r.start}

thread_partition_short(max, curr_thread, tot_threads) ==
    LET per_thread == max \div tot_threads
    IN  Range(per_thread * curr_thread, per_thread * (curr_thread + 1))

thread_partition_first(max, curr_thread, tot_threads) ==
    LET per_thread == max \div tot_threads
        extra == max % tot_threads
    IN  IF curr_thread # 0
        THEN Range(per_thread * curr_thread + extra, per_thread * (curr_thread + 1) + extra)
        ELSE Range(0, per_thread + extra)

thread_partition(max, curr_thread, tot_threads) ==
    LET per_thread == max \div tot_threads
    IN  IF curr_thread # tot_threads - 1
        THEN Range(per_thread * curr_thread, per_thread * (curr_thread + 1))
        ELSE Range(per_thread * curr_thread, max)

VARIABLES
    pMax,       \* thread_partition's max (the image height)
    pTot,       \* thread_partition's tot_threads
    pBands      \* the bands computed so far, for curr_thread = 0, 1, ...

partVars == <<pMax, pTot, pBands>>

PartInit ==
    /\ pMax \in 0..MaxRows
    /\ pTot \in 1..MaxParts
    /\ pBands = <<>>

PartIdle ==
    /\ pMax = 0
    /\ pTot = 1
    /\ pBands = <<>>

\* One iteration of ray_map's spawn loop, as far as the partition goes.
PartBand ==
    /\ Len(pBands) < pTot
    /\ pBands' = Append(pBands, thread_partition(pMax, Len(pBands), pTot))
    /\ UNCHANGED <<pMax, pTot>>

(***************************************************************************)
(* camera.rs: Camera::ray_map, ray_map_inner and progress_logger.          *)
(***************************************************************************)
progress_len == 30

\* The colors the shading callback f may return.
Palette == {BLACK, WHITE}

VARIABLES
    height,     \* Camera.height
    width,      \* Camera.width
    samples,    \* ray_map's samples
    tot_t,      \* available_parallelism()
    mainPc,     \* where the thread calling ray_map is
    curr_t,     \* the spawn loop's index
    result,     \* the joined outputs collected so far, in handle order
    workers,    \* per worker thread: pc, h_range, h, w, rays, colors
    progress,   \* the AtomicU32 row counter
    logger,     \* the progress_logger thread: pc, the value it loaded, the bar it printed
    f_calls     \* per pixel, the calls of f made for it: worker, batch, color returned

renderVars == <<height, width, samples, tot_t, mainPc, curr_t, result, workers,
                progress, logger, f_calls>>

Threads == 0..(tot_t - 1)

Pixels == (0..(height - 1)) \X (0..(width - 1))

Unspawned ==
    [pc |-> "unspawned", h_range |-> Range(0, 0), h |-> 0, w |-> 0,
     rays |-> <<>>, colors |-> <<>>]

RenderInit ==
    /\ height \in 0..MaxHeight
    /\ width \in 0..MaxWidth
    /\ samples \in 1..MaxSamples
    /\ tot_t \in 1..MaxThreads
    /\ mainPc = "spawn"
    /\ curr_t = 0
    /\ result = <<>>
    /\ workers = [t \in Threads |-> Unspawned]
    /\ progress = 0
    /\ logger = [pc |-> "unspawned", seen |-> 0, bar |-> 0]
    /\ f_calls = [px \in Pixels |-> <<>>]

RenderIdle ==
    /\ height = 0
    /\ width = 0
    /\ samples = 0
    /\ tot_t = 1
    /\ mainPc = "idle"
    /\ curr_t = 0
    /\ result = <<>>
    /\ workers = <<>>
    /\ progress = 0
    /\ logger = [pc |-> "unspawned", seen |-> 0, bar |-> 0]
    /\ f_calls = <<>>

\* ray_map, the spawn loop: s.spawn of worker curr_t.
Spawn ==
    /\ mainPc = "spawn"
    /\ workers' = [workers EXCEPT ![curr_t] =
                      [Unspawned EXCEPT !.pc = "start",
                                        !.h_range = thread_partition(height, curr_t, tot_t)]]
    /\ curr_t' = curr_t + 1
    /\ mainPc' = IF curr_t + 1 = tot_t THEN "spawn_logger" ELSE "spawn"
    /\ UNCHANGED <<height, width, samples, tot_t, result, progress, logger, f_calls>>

\* ray_map: s.spawn of progress_logger.
SpawnLogger ==
    /\ mainPc = "spawn_logger"
    /\ logger' = [logger EXCEPT !.pc = "load"]
    /\ mainPc' = "join"
    /\ UNCHANGED <<height, width, samples, tot_t, curr_t, result, workers, progress, f_calls>>

JoinPrepends ==
    /\ mainPc = "join"
    /\ workers[Len(result)].pc = "done"
    /\ result' = <<workers[Len(result)].colors>> \o result
    /\ mainPc' = IF Len(result) + 1 = tot_t THEN "scope_exit" ELSE "join"
    /\ UNCHANGED <<height, width, samples, tot_t, curr_t, workers, progress, logger, f_calls>>

\* ray_map: h.join().unwrap() of the next handle.
Join ==
    /\ mainPc = "join"
    /\ workers[Len(result)].pc = "done"
    /\ result' = Append(result, workers[Len(result)].colors)
    /\ mainPc' = IF Len(result) + 1 = tot_t THEN "scope_exit" ELSE "join"
    /\ UNCHANGED <<height, width, samples, tot_t, curr_t, workers, progress, logger, f_calls>>

\* thread::scope returns once every spawned thread has ended, and panics
\* when one it joined itself has panicked.
ScopeExit ==
    /\ mainPc = "scope_exit"
    /\ \A t \in Threads : workers[t].pc = "done"
    /\ logger.pc \in {"done", "panicked"}
    /\ mainPc' = IF logger.pc = "panicked" THEN "panicked" ELSE "returned"
    /\ UNCHANGED <<height, width, samples, tot_t, curr_t, result, workers, progress,
                   logger, f_calls>>

\* ray_map_inner before its loop: the ray buffer and the output vector.
WorkerStart(t) ==
    /\ workers[t].pc = "start"
    /\ workers' = [workers EXCEPT
                      ![t].rays = [i \in 1..samples |-> Ray(ZERO, ZERO)],
                      ![t].colors = <<>>,
                      ![t].h = workers[t].h_range.start,
                      ![t].pc = IF RangeLen(workers[t].h_range) = 0 THEN "done" ELSE "row"]
    /\ UNCHANGED <<height, width, samples, tot_t, mainPc, curr_t, result, progress,
                   logger, f_calls>>

\* The worker's position after the pixel loop of row h has ended.
AfterRow(w, h) ==
    IF h + 1 < w.h_range.end THEN [w EXCEPT !.h = h + 1, !.w = 0, !.pc = "row"]
    ELSE [w EXCEPT !.h = h + 1, !.w = 0, !.pc = "done"]

WorkerRowCountsPixels(t) ==
    /\ workers[t].pc = "row"
    /\ progress' = progress + width
    /\ workers' = [workers EXCEPT ![t] =
                      IF width = 0 THEN AfterRow(workers[t], workers[t].h)
                      ELSE [workers[t] EXCEPT !.w = 0, !.pc = "pixel"]]
    /\ UNCHANGED <<height, width, samples, tot_t, mainPc, curr_t, result, logger, f_calls>>

\* ray_map_inner, the head of the row loop: progress.fetch_add(1, Relaxed).
WorkerRow(t) ==
    /\ workers[t].pc = "row"
    /\ progress' = progress + 1
    /\ workers' = [workers EXCEPT ![t] =
                      IF width = 0 THEN AfterRow(workers[t], workers[t].h)
                      ELSE [workers[t] EXCEPT !.w = 0, !.pc = "pixel"]]
    /\ UNCHANGED <<height, width, samples, tot_t, mainPc, curr_t, result, logger, f_calls>>

\* A camera ray of pixel (h, w); its jitter and lens sample are not modelled,
\* the ray carries the pixel it was generated for.
PixelRay(h, w) == Ray(<<h, w>>, <<h, w>>)

WorkerPixelSharedOutput(t) ==
    /\ workers[t].pc = "pixel"
    /\ LET me == workers[t]
           batch == [i \in 1..Len(me.rays) |-> PixelRay(me.h, me.w)]
       IN  \E c \in Palette :
              /\ f_calls' = [f_calls EXCEPT ![<<me.h, me.w>>] =
                               Append(@, [by |-> t, rays |-> batch, color |-> c])]
              /\ workers' = [workers EXCEPT
                               ![t] = LET filled == [me EXCEPT !.rays = batch]
                                      IN  IF me.w + 1 < width
                                          THEN [filled EXCEPT !.w = me.w + 1]
                                          ELSE AfterRow(filled, me.h),
                               ![0].colors = Append(@, c)]
    /\ UNCHANGED <<height, width, samples, tot_t, mainPc, curr_t, result, progress, logger>>

\* ray_map_inner, one pixel: refill the ray buffer, call f, push its color.
WorkerPixel(t) ==
    /\ workers[t].pc = "pixel"
    /\ LET me == workers[t]
           batch == [i \in 1..Len(me.rays) |-> PixelRay(me.h, me.w)]
       IN  \E c \in Palette :
              /\ f_calls' = [f_calls EXCEPT ![<<me.h, me.w>>] =
                               Append(@, [by |-> t, rays |-> batch, color |-> c])]
              /\ workers' = [workers EXCEPT ![t] =
                               LET pushed == [me EXCEPT !.rays = batch,
                                                        !.colors = Append(me.colors, c)]
                               IN  IF me.w + 1 < width
                                   THEN [pushed EXCEPT !.w = me.w + 1]
                                   ELSE AfterRow(pushed, me.h)]
    /\ UNCHANGED <<height, width, samples, tot_t, mainPc, curr_t, result, progress, logger>>

\* The number of '#' that progress_logger prints for a loaded value.
Bar(loaded, max) ==
    Cardinality({i \in 0..(progress_len - 1) : i < (progress_len * loaded) \div max})

\* progress_logger: load the counter, print the bar (a division by max,
\* which panics when max = 0), break when the value is max.
LoggerLoad ==
    /\ logger.pc = "load"
    /\ logger' = IF height = 0
                 THEN [pc |-> "panicked", seen |-> progress, bar |-> 0]
                 ELSE [pc |-> IF progress = height THEN "done" ELSE "sleep",
                       seen |-> progress,
                       bar |-> Bar(progress, height)]
    /\ UNCHANGED <<height, width, samples, tot_t, mainPc, curr_t, result, workers,
                   progress, f_calls>>

\* progress_logger: thread::sleep returns.
LoggerWake ==
    /\ logger.pc = "sleep"
    /\ logger' = [logger EXCEPT !.pc = "load"]
    /\ UNCHANGED <<height, width, samples, tot_t, mainPc, curr_t, result, workers,
                   progress, f_calls>>

(***************************************************************************)
(* Material::scatter applied to bounded inputs.                            *)
(***************************************************************************)
GREY == <<Q(1, 2), Q(1, 2), Q(1, 2)>>

ScatterMaterials ==
    {lambertian(GREY, None), lambertian(GREY, Q(3, 2)),
     metal(GREY, None), metal(GREY, Q(1, 2)), metal(GREY, Q(3, 2)),
     dielectric(R(1), None), dielectric(Q(3, 2), None), dielectric(R(1), Q(3, 2))}

\* Incoming directions (not unit length) and unit surface normals.
ScatterDirs == {V(0, -1, 0), V(3, -4, 0), V(4, -3, 0), V(0, 2, 0), V(-3, 4, 0), V(1, 0, 0)}

ScatterNormals == {V(0, 1, 0), <<Q(3, 5), Q(4, 5), R(0)>>}

\* Values of rand_unit() and of the uniform [0,1) sample.
RandUnits == {V(0, 1, 0), V(0, -1, 0), V(1, 0, 0), <<Q(-3, 5), Q(-4, 5), R(0)>>}

RandDraws == {R(0), Q(1, 100), Q(1, 2), Q(99, 100)}

VARIABLES
    sMat,       \* self
    sRay,       \* r
    sNormal,    \* normal
    sFront,     \* front_face
    sDraws,     \* the random values the call drew: ru, draw, fru
    sOut        \* the Scatter returned, of kind "Pending" before the call

scatVars == <<sMat, sRay, sNormal, sFront, sDraws, sOut>>

NoDraws == [ru |-> ZERO, draw |-> R(0), fru |-> ZERO]

ScatInit ==
    /\ sMat \in ScatterMaterials
    /\ sNormal \in ScatterNormals
    /\ \E d \in ScatterDirs :
          /\ sRay = Ray(ZERO, d)
          /\ sFront = HitRecord(ZERO, sNormal, R(1), sMat, Ray(ZERO, d)).front_face
    /\ sDraws = NoDraws
    /\ sOut = [kind |-> "Pending"]

ScatIdle ==
    /\ sMat = metal(BLACK, None)
    /\ sRay = Ray(ZERO, ZERO)
    /\ sNormal = ZERO
    /\ sFront = FALSE
    /\ sDraws = NoDraws
    /\ sOut = [kind |-> "Idle"]

\* hit.material.scatter(r, hit.normal, 1.0, hit.front_face), as ray_color calls it.
ScatterCall ==
    /\ sOut.kind = "Pending"
    /\ \E ru \in RandUnits, draw \in RandDraws, fru \in RandUnits :
          /\ sDraws' = [ru |-> ru, draw |-> draw, fru |-> fru]
          /\ sOut' = scatter(sMat, sRay, sNormal, R(1), sFront, ru, draw, fru)
    /\ UNCHANGED <<sMat, sRay, sNormal, sFront>>

(***************************************************************************)
(* main.rs: ray_color, and the shading closure main passes to ray_map.     *)
(***************************************************************************)
t_min == Q(1, 1000)

\* for _ in 0..depth
LoopRunsInclusive(i, depth) == i <= depth

LoopRuns(i, depth) == i < depth

\* The upper bound of the range a sphere is tested with during the scan.
ScanBoundFixed(bound) == Inf

ScanBound(bound) == bound

\* attenuation = Color::blend(att, attenuation)
NextAttenuationLast(att, attenuation) == att

NextAttenuation(att, attenuation) == blend(att, attenuation)

\* The background: the gradient of the ray's unit direction.
sky(r) ==
    LET dir == unit(r.dir)
        a == FMul(Q(1, 2), FAdd(dir[2], R(1)))
    IN  VAdd(scale(FSub(R(1), a), V(1, 1, 1)), scale(a, <<Q(1, 2), Q(7, 10), R(1)>>))

RECURSIVE Sum(_)
Sum(colors) == IF colors = <<>> THEN BLACK ELSE VAdd(Sum(Tail(colors)), Head(colors))

\* The closure of main: the mean of ray_color over the batch.
shade(colors, n) == scale(FDiv(R(1), R(n)), Sum(colors))

MIRROR == <<Q(4, 5), Q(4, 5), Q(4, 5)>>

\* The spheres a world is made of: all centred on the z axis.
Catalog ==
    {Sphere(V(0, 0, -3), R(1), metal(MIRROR, Q(3, 2))),
     Sphere(V(0, 0, 3), R(1), metal(GREY, Q(3, 2))),
     Sphere(V(0, 0, -6), R(2), metal(BLACK, None)),
     Sphere(V(0, 0, -1), R(3), dielectric(Q(3, 2), None)),
     Sphere(V(0, 0, 6), R(2), lambertian(GREY, None))}

Worlds ==
    {w \in UNION {[1..n -> Catalog] : n \in 0..MaxSpheres} :
        \A i, j \in DOMAIN w : i # j => w[i] # w[j]}

\* Rays along the z axis, a ray that grazes the sphere of radius 3 and a
\* ray that meets no sphere.
CameraRays ==
    {Ray(ZERO, V(0, 0, -1)), Ray(ZERO, V(0, 0, 2)), Ray(V(3, 0, 0), V(0, 0, -1)),
     Ray(V(0, 5, 0), V(0, 1, 0))}

RcRandUnits == {V(0, 0, 1), V(0, 0, -1)}

RcRandDraws == {R(0), Q(1, 2)}

VARIABLES
    world,          \* the spheres, in insertion order
    depth,          \* ray_color's depth
    r,              \* the current ray
    attenuation,    \* the running attenuation
    iter,           \* the number of iterations of the bounce loop begun
    scanned,        \* the number of spheres of world the current scan has tested
    max_t,          \* the scan's upper bound
    closest,        \* the scan's retained hit
    rcPc,           \* "loop", "scan", "done"
    rcResult,       \* the color returned
    rcTrace         \* what the call has done: hit tests, scatter calls, the
                    \* attenuations of the Scattered bounces, how it returned

rcVars == <<world, depth, r, attenuation, iter, scanned, max_t, closest, rcPc,
            rcResult, rcTrace>>

NoTrace == [tests |-> 0, scatters |-> 0, bounces |-> <<>>, outcome |-> "running"]

RcInit ==
    /\ world \in Worlds
    /\ depth \in 0..MaxDepth
    /\ r \in CameraRays
    /\ attenuation = WHITE
    /\ iter = 0
    /\ scanned = 0
    /\ max_t = Inf
    /\ closest = NoHit
    /\ rcPc = "loop"
    /\ rcResult = BLACK
    /\ rcTrace = NoTrace

RcIdle ==
    /\ world = <<>>
    /\ depth = 0
    /\ r = Ray(ZERO, ZERO)
    /\ attenuation = WHITE
    /\ iter = 0
    /\ scanned = 0
    /\ max_t = Inf
    /\ closest = NoHit
    /\ rcPc = "idle"
    /\ rcResult = BLACK
    /\ rcTrace = NoTrace

\* The head of the bounce loop: the next iteration starts its scan.
RcIterate ==
    /\ rcPc = "loop"
    /\ LoopRuns(iter, depth)
    /\ iter' = iter + 1
    /\ max_t' = Inf
    /\ closest' = NoHit
    /\ scanned' = 0
    /\ rcPc' = "scan"
    /\ UNCHANGED <<world, depth, r, attenuation, rcResult, rcTrace>>

\* The loop is over: Color::BLACK.
RcExhausted ==
    /\ rcPc = "loop"
    /\ ~LoopRuns(iter, depth)
    /\ rcResult' = BLACK
    /\ rcPc' = "done"
    /\ rcTrace' = [rcTrace EXCEPT !.outcome = "exhausted"]
    /\ UNCHANGED <<world, depth, r, attenuation, iter, scanned, max_t, closest>>

\* The scan, one sphere: s.hit(&r, 0.001..max_t).
RcScan ==
    /\ rcPc = "scan"
    /\ scanned < Len(world)
    /\ LET s_hit == hit(world[scanned + 1], r, t_min, ScanBound(max_t))
       IN  /\ max_t' = IF s_hit.some THEN s_hit.t ELSE max_t
           /\ closest' = IF s_hit.some THEN s_hit ELSE closest
    /\ scanned' = scanned + 1
    /\ rcTrace' = [rcTrace EXCEPT !.tests = @ + 1]
    /\ UNCHANGED <<world, depth, r, attenuation, iter, rcPc, rcResult>>

\* After the scan, a hit: scatter, then return or bounce.
RcHit ==
    /\ rcPc = "scan"
    /\ scanned = Len(world)
    /\ closest.some
    /\ \E ru \in RcRandUnits, draw \in RcRandDraws, fru \in RcRandUnits :
          LET sc == scatter(closest.material, r, closest.normal, R(1),
                            closest.front_face, ru, draw, fru)
          IN  IF sc.kind = "Absorbed"
              THEN /\ rcResult' = blend(attenuation, sc.solid_color)
                   /\ rcPc' = "done"
                   /\ rcTrace' = [rcTrace EXCEPT !.scatters = @ + 1,
                                                 !.outcome = "absorbed"]
                   /\ UNCHANGED <<r, attenuation>>
              ELSE /\ attenuation' = NextAttenuation(sc.attenuation, attenuation)
                   /\ r' = Ray(closest.p, sc.direction)
                   /\ rcPc' = "loop"
                   /\ rcTrace' = [rcTrace EXCEPT !.scatters = @ + 1,
                                                 !.bounces = Append(@, sc.attenuation)]
                   /\ UNCHANGED rcResult
    /\ UNCHANGED <<world, depth, iter, scanned, max_t, closest>>

\* After the scan, no hit: the background.
RcMiss ==
    /\ rcPc = "scan"
    /\ scanned = Len(world)
    /\ ~closest.some
    /\ rcResult' = blend(attenuation, sky(r))
    /\ rcPc' = "done"
    /\ rcTrace' = [rcTrace EXCEPT !.outcome = "miss"]
    /\ UNCHANGED <<world, depth, r, attenuation, iter, scanned, max_t, closest>>

(***************************************************************************)
(* The specifications: a render (Spec), thread_partition on its own        *)
(* (PartSpec), scatter on its own (ScatterSpec), ray_color (RayColorSpec). *)
(***************************************************************************)
vars == <<partVars, renderVars, scatVars, rcVars>>

Init == RenderInit /\ PartIdle /\ ScatIdle /\ RcIdle

Next ==
    \/ Spawn /\ UNCHANGED <<partVars, scatVars, rcVars>>
    \/ SpawnLogger /\ UNCHANGED <<partVars, scatVars, rcVars>>
    \/ Join /\ UNCHANGED <<partVars, scatVars, rcVars>>
    \/ ScopeExit /\ UNCHANGED <<partVars, scatVars, rcVars>>
    \/ \E t \in Threads : WorkerStart(t) /\ UNCHANGED <<partVars, scatVars, rcVars>>
    \/ \E t \in Threads : WorkerRow(t) /\ UNCHANGED <<partVars, scatVars, rcVars>>
    \/ \E t \in Threads : WorkerPixel(t) /\ UNCHANGED <<partVars, scatVars, rcVars>>
    \/ LoggerLoad /\ UNCHANGED <<partVars, scatVars, rcVars>>
    \/ LoggerWake /\ UNCHANGED <<partVars, scatVars, rcVars>>

Spec == Init /\ [][Next]_vars

\* The steps of the thread that calls ray_map, of worker t and of the monitor.
MainStep == (Spawn \/ SpawnLogger \/ Join \/ ScopeExit) /\ UNCHANGED <<partVars, scatVars, rcVars>>

WorkerStep(t) ==
    /\ t \in Threads
    /\ WorkerStart(t) \/ WorkerRow(t) \/ WorkerPixel(t)
    /\ UNCHANGED <<partVars, scatVars, rcVars>>

LoggerStep == (LoggerLoad \/ LoggerWake) /\ UNCHANGED <<partVars, scatVars, rcVars>>

\* Every OS thread that can run is eventually scheduled.
FairSpec ==
    /\ Spec
    /\ WF_vars(MainStep)
    /\ \A t \in 0..MaxThreads : WF_vars(WorkerStep(t))
    /\ WF_vars(LoggerStep)

PartSpecInit == PartInit /\ RenderIdle /\ ScatIdle /\ RcIdle

PartNext == PartBand /\ UNCHANGED <<renderVars, scatVars, rcVars>>

PartSpec == PartSpecInit /\ [][PartNext]_vars

ScatterSpecInit == ScatInit /\ PartIdle /\ RenderIdle /\ RcIdle

ScatterNext == ScatterCall /\ UNCHANGED <<partVars, renderVars, rcVars>>

ScatterSpec == ScatterSpecInit /\ [][ScatterNext]_vars

RayColorInit == RcInit /\ PartIdle /\ RenderIdle /\ ScatIdle

RayColorNext ==
    \/ RcIterate /\ UNCHANGED <<partVars, renderVars, scatVars>>
    \/ RcExhausted /\ UNCHANGED <<partVars, renderVars, scatVars>>
    \/ RcScan /\ UNCHANGED <<partVars, renderVars, scatVars>>
    \/ RcHit /\ UNCHANGED <<partVars, renderVars, scatVars>>
    \/ RcMiss /\ UNCHANGED <<partVars, renderVars, scatVars>>

RayColorSpec == RayColorInit /\ [][RayColorNext]_vars

(***************************************************************************)
(* Properties of thread_partition (PartSpec).                              *)
(***************************************************************************)
BandsDone == Len(pBands) = pTot

BandsOf(h) == {i \in 1..Len(pBands) : h \in Rows(pBands[i])}

\* C1: the bands of thread_partition(height, i, T), i = 0..T-1, are
\* contiguous and pairwise disjoint and their union is [0, height): every
\* row index belongs to exactly one band.
C1_BandsPartitionRows ==
    /\ \A i \in 1..Len(pBands) :
          /\ pBands[i].start <= pBands[i].end
          /\ Rows(pBands[i]) \subseteq 0..(pMax - 1)
          /\ i = 1 => pBands[i].start = 0
          /\ i > 1 => pBands[i].start = pBands[i - 1].end
    /\ \A i, j \in 1..Len(pBands) : i # j => Rows(pBands[i]) \cap Rows(pBands[j]) = {}
    /\ BandsDone =>
          /\ pBands[pTot].end = pMax
          /\ \A h \in 0..(pMax - 1) : Cardinality(BandsOf(h)) = 1

C1_Witness == BandsDone /\ pTot = 3 /\ pMax = 8

\* C2, as claimed: the sizes of any two bands differ by at most one row.
C2_SizesWithinOne ==
    \A i, j \in 1..Len(pBands) : Abs(RangeLen(pBands[i]) - RangeLen(pBands[j])) <= 1

\* C2, amended: every band but the last has height \div T rows and the last
\* band has the height % T remaining rows on top of that, so that two sizes
\* differ by at most T - 1 rows.
C2_RemainderInLastBand ==
    /\ \A i \in 1..Len(pBands) :
          RangeLen(pBands[i]) =
              IF i = pTot THEN (pMax \div pTot) + (pMax % pTot) ELSE pMax \div pTot
    /\ \A i, j \in 1..Len(pBands) :
          Abs(RangeLen(pBands[i]) - RangeLen(pBands[j])) <= pTot - 1

C2_Witness ==
    /\ BandsDone
    /\ pTot = 3
    /\ pMax = 5
    /\ RangeLen(pBands[3]) = RangeLen(pBands[1]) + 2

(***************************************************************************)
(* Properties of a render (Spec).                                          *)
(***************************************************************************)
RowShaded(h) == \A w \in 0..(width - 1) : f_calls[<<h, w>>] # <<>>

CompletedRows == {h \in 0..(height - 1) : RowShaded(h)}

\* C3, as claimed: the counter is at most the number of rows whose pixels
\* have all been computed, and the monitor sees counter = height only when
\* every row is finished.
C3_CounterCountsCompletedRows ==
    /\ progress <= Cardinality(CompletedRows)
    /\ logger.pc = "done" => Cardinality(CompletedRows) = height

\* C4, as claimed: for every height and every worker count no thread of a
\* render faults, and ray_map returns only after the workers and the
\* monitor have ended.
C4_RenderEndsWithoutFault ==
    /\ logger.pc # "panicked"
    /\ mainPc # "panicked"
    /\ mainPc = "returned" =>
          /\ \A t \in Threads : workers[t].pc = "done"
          /\ logger.pc = "done"

\* The part of C4 the code keeps: an image with at least one row is
\* rendered to the end, under FairSpec.
RenderOfRowsReturns == height >= 1 ~> mainPc = "returned"

RECURSIVE Flatten(_)
Flatten(vs) == IF vs = <<>> THEN <<>> ELSE Head(vs) \o Flatten(Tail(vs))

\* C5: the outputs of the workers, concatenated in band order, have
\* width * height colors, and the color at index row * width + col is the one
\* f returned for pixel (row, col).
C5_ResultIsRowMajor ==
    mainPc \in {"scope_exit", "returned"} =>
        LET flat == Flatten(result)
        IN  /\ Len(result) = tot_t
            /\ Len(flat) = width * height
            /\ \A px \in Pixels :
                  /\ f_calls[px] # <<>>
                  /\ flat[px[1] * width + px[2] + 1] = f_calls[px][Len(f_calls[px])].color

C5_Witness ==
    /\ mainPc = "returned"
    /\ tot_t = 2
    /\ height = 2
    /\ width = 2
    /\ f_calls[<<0, 0>>][1].color # f_calls[<<0, 1>>][1].color
    /\ f_calls[<<0, 0>>][1].color # f_calls[<<1, 0>>][1].color

\* The pixels worker t has called f for, and the place of a pixel of its
\* band in its output.
ShadedBy(t) == {px \in Pixels : \E i \in 1..Len(f_calls[px]) : f_calls[px][i].by = t}

PlaceIn(t, px) == (px[1] - workers[t].h_range.start) * width + px[2] + 1

RenderOver == mainPc \in {"scope_exit", "returned", "panicked"}

OncePerPixel ==
    /\ \A px \in Pixels :
          /\ Len(f_calls[px]) <= 1
          /\ RenderOver => Len(f_calls[px]) = 1
          /\ \A i \in 1..Len(f_calls[px]) :
                LET call == f_calls[px][i]
                IN  /\ Len(call.rays) = samples
                    /\ \A k \in 1..Len(call.rays) : call.rays[k] = PixelRay(px[1], px[2])
                    /\ px[1] \in Rows(workers[call.by].h_range)
    /\ \A t \in Threads :
          /\ Len(workers[t].colors) = Cardinality(ShadedBy(t))
          /\ \A px \in ShadedBy(t) :
                workers[t].colors[PlaceIn(t, px)] = f_calls[px][1].color
          /\ workers[t].pc \in {"row", "pixel", "done"} => Len(workers[t].rays) = samples
    /\ \A i \in 1..Len(result) :
          /\ workers[i - 1].pc = "done"
          /\ result[i] = workers[i - 1].colors

\* A step of a running worker t: it leaves every other worker's buffer and
\* output and the joined outputs alone, and a call of f it makes is made
\* with its own buffer.
OwnStateOnly ==
    \A t \in Threads :
        workers[t].pc # "unspawned" /\ workers'[t] # workers[t] =>
            /\ \A u \in Threads \ {t} : workers'[u] = workers[u]
            /\ result' = result
            /\ \A px \in Pixels :
                  f_calls'[px] # f_calls[px] =>
                      /\ f_calls'[px] = Append(f_calls[px], f_calls'[px][Len(f_calls'[px])])
                      /\ f_calls'[px][Len(f_calls'[px])].by = t
                      /\ f_calls'[px][Len(f_calls'[px])].rays = workers'[t].rays

\* C11: in every interleaving f is called exactly once for each pixel, with
\* a batch of exactly samples rays of that pixel from the calling worker's
\* buffer, its color is appended to that worker's output only, no worker
\* touches another worker's buffer or output, and an output is collected
\* only from a worker that has ended.
C11_OneCallPerPixelOwnBuffers == []OncePerPixel /\ [][OwnStateOnly]_vars

C11_Witness ==
    /\ mainPc = "returned"
    /\ tot_t = 2
    /\ height = 2
    /\ width = 2
    /\ f_calls[<<0, 1>>][1].by = 0
    /\ f_calls[<<1, 1>>][1].by = 1
    /\ Len(result[1]) = 2
    /\ Len(result[2]) = 2

AllWorkersDone == \A t \in Threads : workers[t].pc = "done"

CounterInRange ==
    /\ progress <= height
    /\ AllWorkersDone => progress = height
    /\ \A t \in Threads :
          workers[t].pc \in {"start", "row", "pixel"} => ENABLED WorkerStep(t)

CounterStep ==
    /\ progress' >= progress
    /\ progress' # progress =>
          /\ progress' = progress + 1
          /\ logger' = logger
          /\ \E t \in Threads : workers[t].pc = "row" /\ workers'[t] # workers[t]

ScatterReturned == sOut.kind \in {"Absorbed", "Scattered"}

PlainGlass ==
    /\ sMat.material = "Dielectric"
    /\ sMat.refraction_index = R(1)
    /\ sMat.fuzz = None

\* C7, as claimed: a Dielectric of refraction index 1.0 without fuzz
\* scatters every ray into its own unit direction, on front and back faces
\* and for every reflectance draw, and never takes the reflect branch.
C7_IndexOnePassesStraight ==
    ScatterReturned /\ PlainGlass =>
        /\ sOut.kind = "Scattered"
        /\ sOut.direction = unit(sRay.dir)
        /\ ~cannot_refract(sMat, sRay, sNormal, R(1), sFront, sDraws.draw)

\* The direction scatter has before its fuzz step, perturbed by the fuzz.
Perturbed ==
    LET base == scatter_match(sMat, sRay, sNormal, R(1), sFront, sDraws.ru, sDraws.draw)
    IN  VAdd(unit(base.direction), scale(sMat.fuzz, sDraws.fru))

\* C8: scatter returns Absorbed exactly when the material has a fuzz and the
\* perturbed direction has a negative dot product with the surface normal,
\* the Absorbed color is then the material's color, and a material without
\* fuzz is never Absorbed.
C8_AbsorbedIffFuzzedInward ==
    ScatterReturned =>
        /\ sOut.kind = "Absorbed" <=>
              (sMat.fuzz # None /\ FLt(dot(Perturbed, sNormal), R(0)))
        /\ sOut.kind = "Absorbed" => sOut.solid_color = sMat.solid_color
        /\ sMat.fuzz = None => sOut.kind = "Scattered"

C8_Witness ==
    /\ sOut.kind = "Absorbed"
    /\ sMat.material = "Dielectric"
    /\ sFront

(***************************************************************************)
(* Properties of ray_color (RayColorSpec).                                 *)
(***************************************************************************)
\* C6: with depth = 0 ray_color returns black for every ray and world,
\* without a hit test or a scatter, and so does the mean of any batch.
C6_DepthZeroIsBlack ==
    rcPc # "idle" /\ depth = 0 =>
        /\ rcTrace.tests = 0
        /\ rcTrace.scatters = 0
        /\ rcPc \in {"loop", "done"}
        /\ rcPc = "done" =>
              /\ rcResult = BLACK
              /\ \A n \in 1..(MaxSamples + 1) :
                    shade([i \in 1..n |-> rcResult], n) = BLACK

C6_Witness == rcPc = "done" /\ depth = 0 /\ Len(world) >= 1

RECURSIVE Product(_)
Product(colors) ==
    IF colors = <<>> THEN WHITE ELSE blend(Product(Tail(colors)), Head(colors))

\* What C9 says of every return but the one on black.
ReturnsAtFirstEnd ==
    /\ iter <= depth
    /\ rcTrace.tests <= depth * Len(world)
    /\ rcPc = "done" =>
          /\ rcTrace.outcome = "miss" =>
                /\ Len(rcTrace.bounces) = iter - 1
                /\ rcResult = blend(Product(rcTrace.bounces), sky(r))
          /\ rcTrace.outcome = "absorbed" =>
                /\ Len(rcTrace.bounces) = iter - 1
                /\ rcResult = blend(Product(rcTrace.bounces), closest.material.solid_color)
          /\ rcTrace.outcome = "exhausted" =>
                /\ Len(rcTrace.bounces) = depth
                /\ iter = depth
                /\ rcResult = BLACK

NoDarkChannel(c) == \A k \in 1..3 : c[k] # R(0)

FullHits(n) == {hit(world[i], r, t_min, Inf) : i \in 1..n}

FullTs(n) == {h.t : h \in {x \in FullHits(n) : x.some}}

\* C10: the hit the scan retains is the closest one: its t is the least t
\* that a sphere reports over (t_min, infinity), whatever the order of the
\* world, and no hit is retained only when no sphere reports one.
C10_ScanKeepsClosest ==
    rcPc = "scan" =>
        /\ closest.some <=> FullTs(scanned) # {}
        /\ closest.some =>
              /\ closest.t \in FullTs(scanned)
              /\ \A t \in FullTs(scanned) : FLe(closest.t, t)
              /\ max_t = closest.t

C10_Witness ==
    /\ rcPc = "scan"
    /\ scanned = 2
    /\ Len(world) = 2
    /\ hit(world[1], r, t_min, Inf).some
    /\ hit(world[2], r, t_min, Inf).some
    /\ FLt(hit(world[1], r, t_min, Inf).t, hit(world[2], r, t_min, Inf).t)
    /\ closest.t = hit(world[1], r, t_min, Inf).t

====
